---- MODULE Spec2Model ----
(***************************************************************************)
(* Model of bot.py: the bankruptcy-registry watch bot.                     *)
(*                                                                         *)
(* Files on disk (companies.txt, subscribers.txt, bankruptcy_temp.csv),    *)
(* the upstream registry, the update queue of the command loop, the        *)
(* /check handler, the daily job and the worker-thread runs of             *)
(* check_bankruptcy_logic are the state; one action per handler or step.   *)
(*                                                                         *)
(* Dates are day numbers.  A registry date field is a record               *)
(* [nan, tokens]: nan is pandas' missing value (or the text "nan"),        *)
(* tokens is what str(field).strip().split() yields; a token is either a   *)
(* well-formed DD.MM.YYYY date (carrying its day number) or Junk.          *)
(* Texts are sequences of line lengths (the lines between "\n").           *)
(***************************************************************************)
EXTENDS Integers, Sequences, FiniteSets, TLC

\* ------------------------------------------------------------- bounds
NumChats == 2      \* chats that talk to the bot
NumCodes == 2      \* distinct company codes
MaxRows == 2       \* rows of the registry CSV
MaxLines == 2      \* lines of companies.txt
MaxQueue == 1      \* updates waiting in the command loop
FirstDay == 3      \* day the bot starts
LastDay == 4       \* last day modelled

\* ------------------------------------------------- program constants
DAYS_TO_CHECK == 2
MAX_DISPLAY == 20
MAX_LENGTH == 4000
\* the limit of Telegram that send_long_message documents
TELEGRAM_LIMIT == 4096

Chats == 1..NumChats
Codes == 1..NumCodes
Days == FirstDay..LastDay
\* dates a registry row may carry: from the first cutoff to the first day
Dates == (FirstDay - DAYS_TO_CHECK)..FirstDay

\* tokens of a date field, and the values parse_date yields
Junk == [ok |-> FALSE]
DateTok(d) == [ok |-> TRUE, day |-> d]
None == [kind |-> "None"]
IndexError == [kind |-> "IndexError"]
DateObj(d) == [kind |-> "date", day |-> d]

Min(a, b) == IF a < b THEN a ELSE b

RECURSIVE SumSeq(_)
SumSeq(s) == IF s = <<>> THEN 0 ELSE Head(s) + SumSeq(Tail(s))

RECURSIVE Digits(_)
\* len(str(n)) for n >= 0
Digits(n) == IF n < 10 THEN 1 ELSE 1 + Digits(n \div 10)

\* ------------------------------------------------------ date fields
Field(isnan, toks) == [nan |-> isnan, tokens |-> toks]

DateFields ==
    {Field(TRUE, <<>>), Field(FALSE, <<>>), Field(FALSE, <<Junk>>),
     Field(FALSE, <<DateTok(FirstDay), Junk>>)}
    \cup {Field(FALSE, <<DateTok(d)>>) : d \in Dates}

Rows == [code : Codes, date : DateFields]

RECURSIVE SeqsUpTo(_, _)
SeqsUpTo(S, n) ==
    IF n = 0 THEN {<<>>}
    ELSE LET shorter == SeqsUpTo(S, n - 1)
         IN shorter \cup {Append(s, x) : s \in shorter, x \in S}

\* parse_date: None for a missing value or a first token that is no date,
\* the date of the first token otherwise; split()[0] of a blank text is
\* outside the try block and raises IndexError.
parse_date(date_str) ==
    IF date_str.nan THEN None
    ELSE IF date_str.tokens = <<>> THEN IndexError
    ELSE IF ~date_str.tokens[1].ok THEN None
    ELSE DateObj(date_str.tokens[1].day)

\* ------------------------------------------------------ companies.txt
RECURSIVE Unique(_, _)
Unique(codes, seen) ==
    IF codes = <<>> THEN <<>>
    ELSE IF Head(codes) \in seen THEN Unique(Tail(codes), seen)
    ELSE <<Head(codes)>> \o Unique(Tail(codes), seen \cup {Head(codes)})

\* get_monitored_codes on a companies file [exists, lines]
get_monitored_codes(file) ==
    IF ~file.exists THEN <<>> ELSE Unique(file.lines, {})

Range(s) == {s[i] : i \in DOMAIN s}

\* ------------------------------------------- check_bankruptcy_logic
\* rows of the data frame whose clean_code is code, in file order
RECURSIVE Matches(_, _)
Matches(rows, code) ==
    IF rows = <<>> THEN <<>>
    ELSE IF Head(rows).code = code THEN <<Head(rows)>> \o Matches(Tail(rows), code)
    ELSE Matches(Tail(rows), code)

\* the date threshold: today minus DAYS_TO_CHECK days
DateThreshold(day) == day - DAYS_TO_CHECK

\* what the loop body does with one watched code: the entry to append
\* (at most one, from the first matching row only), or the exception
CodeStep(rows, code, day) ==
    LET matches == Matches(rows, code)
        date_obj == parse_date(matches[1].date)
    IN IF matches = <<>> THEN [raised |-> FALSE, add |-> <<>>]
       ELSE IF date_obj = IndexError THEN [raised |-> TRUE, add |-> <<>>]
       ELSE IF date_obj # None /\ date_obj.day > DateThreshold(day)
            THEN [raised |-> FALSE,
                  add |-> <<[code |-> code, date |-> date_obj.day]>>]
       ELSE [raised |-> FALSE, add |-> <<>>]

\* the loop over enterprise_codes; an exception ends it
RECURSIVE MatchLoop(_, _, _, _)
MatchLoop(codes, rows, day, results) ==
    IF codes = <<>> THEN [raised |-> FALSE, results |-> results]
    ELSE LET step == CodeStep(rows, Head(codes), day)
         IN IF step.raised THEN [raised |-> TRUE, results |-> results]
            ELSE MatchLoop(Tail(codes), rows, day, results \o step.add)

\* results.sort(key=date_obj, reverse=True): stable, latest first
RECURSIVE InsertDesc(_, _)
InsertDesc(sorted, e) ==
    IF sorted = <<>> THEN <<e>>
    ELSE IF Head(sorted).date >= e.date
         THEN <<Head(sorted)>> \o InsertDesc(Tail(sorted), e)
    ELSE <<e>> \o sorted

\* the results left in the order of the watchlist
Unsorted(results) == results

RECURSIVE SortDesc(_)
SortDesc(results) ==
    IF results = <<>> THEN <<>>
    ELSE InsertDesc(SortDesc(SubSeq(results, 1, Len(results) - 1)),
                    results[Len(results)])

\* the value a run returns: its kind, the sorted results, the date
\* threshold it used (0 when it returned before computing one) and, for
\* a missing code column, the length of the column names it lists
Outcome(k, res, cols) == [kind |-> k, results |-> res, cutoff |-> 0, cols |-> cols]
Matched(k, res, day) ==
    [kind |-> k, results |-> res, cutoff |-> DateThreshold(day), cols |-> 0]

Unavailable == {"dlfail", "readfail", "nocodecol", "nodatecol"}

\* steps 5-7 of check_bankruptcy_logic on a data frame that was read
ProcessFrame(codes, rows, day) ==
    LET loop == MatchLoop(codes, rows, day, <<>>)
    IN IF loop.raised THEN Matched("error", <<>>, day)
       ELSE IF loop.results = <<>> THEN Matched("nonew", <<>>, day)
       ELSE Matched("found", SortDesc(loop.results), day)

\* ------------------------------------------------------ report texts
\* a code is written as its numeral, a company name as "Company <code>"
CodeLen(code) == Digits(code)
NameLen(code) == Min(8 + Digits(code), 80)

\* the four lines of entry i of the report
EntryLines(i, entry) ==
    <<Digits(i) + 14 + CodeLen(entry.code), 2 + NameLen(entry.code), 12, 25>>

RECURSIVE EntriesLines(_, _)
EntriesLines(results, i) ==
    IF i > Len(results) \/ i > MAX_DISPLAY THEN <<>>
    ELSE EntryLines(i, results[i]) \o EntriesLines(results, i + 1)

\* the text a run returns, as the lengths of its lines
ReportLines(out) ==
    CASE out.kind = "nowatch" -> <<57>>
      [] out.kind = "dlfail" -> <<69>>
      [] out.kind = "readfail" -> <<44>>
      [] out.kind = "nocodecol" -> <<36, 14 + out.cols>>
      [] out.kind = "nodatecol" -> <<29>>
      [] out.kind = "error" -> <<33 + 23>>
      [] out.kind = "nonew" -> <<49, 31>>
      [] out.kind = "found" ->
            <<29 + Digits(Len(out.results)), 0>>
            \o EntriesLines(out.results, 1)
            \o (IF Len(out.results) > MAX_DISPLAY
                THEN <<0, 25 + Digits(Len(out.results) - MAX_DISPLAY)>>
                ELSE <<0>>)

\* len() of a text given by its lines
TextLen(lines) == SumSeq(lines) + Len(lines) - 1

\* a message part: its lines, and whether the last one ends in "\n"
Part(lines, nl) == [lines |-> lines, nl |-> nl]
PartLen(part) ==
    SumSeq(part.lines) + Len(part.lines) - (IF part.nl \/ part.lines = <<>> THEN 0 ELSE 1)

\* the line loop that cuts a long text
RECURSIVE SplitLoop(_, _, _)
SplitLoop(lines, parts, current) ==
    IF lines = <<>>
    THEN IF current # <<>> THEN Append(parts, Part(current, TRUE)) ELSE parts
    ELSE IF SumSeq(current) + Len(current) + Head(lines) + 1 > MAX_LENGTH
         THEN SplitLoop(Tail(lines), Append(parts, Part(current, TRUE)), <<Head(lines)>>)
    ELSE SplitLoop(Tail(lines), parts, Append(current, Head(lines)))

\* the messages a report is sent as
SplitReport(lines) ==
    IF TextLen(lines) <= MAX_LENGTH THEN <<Part(lines, FALSE)>>
    ELSE SplitLoop(lines, <<>>, <<>>)

\* length of the header "Part i/n" put before part i of n
HeaderLen(i, n) == IF n > 1 THEN 9 + Digits(i) + Digits(n) + 2 ELSE 0

\* lengths of the column names a CSV without a code column lists
ShortCols == 20
LongCols == 4100

\* ------------------------------------------------------------- state
VARIABLES
    companies,    \* companies.txt: [exists, lines]
    subscribers,  \* subscribers.txt: its lines, in file order
    registry,     \* the rows of the upstream registry
    tmpFile,      \* TRUE when bankruptcy_temp.csv is on disk
    today,        \* datetime.date.today()
    queue,        \* updates fetched and not yet handled
    run,          \* the worker-thread run of each caller of the check
    sched,        \* the daily job: where it is, and its locals
    delivered,    \* per chat, what the current cycle did: tried, raised, parts sent
    subHist       \* the first chat that stopped, and whether it started again

vars == <<companies, subscribers, registry, tmpFile, today, queue, run,
          sched, delivered, subHist>>

Callers == {"manual", "sched"}
Commands == {"start", "stop", "help", "check", "cleandup"}

NotTried == [tried |-> FALSE, raised |-> FALSE, parts |-> <<>>]
IdleRun == [pc |-> "idle", codes |-> <<>>, out |-> Outcome("none", <<>>, 0)]

CompanyFiles ==
    {[exists |-> FALSE, lines |-> <<>>]}
    \cup {[exists |-> TRUE, lines |-> l] : l \in SeqsUpTo(Codes, MaxLines)}

\* the state when the bot starts, on the files and the registry given
InitWith(files, registries, subscriberFiles) ==
    /\ companies \in files
    /\ registry \in registries
    /\ subscribers \in subscriberFiles
    /\ tmpFile = FALSE
    /\ today = FirstDay
    /\ queue = <<>>
    /\ run = [w \in Callers |-> IdleRun]
    /\ sched = [pc |-> "idle", day |-> 0, subs |-> {}, todo |-> {},
                report |-> Outcome("none", <<>>, 0)]
    /\ delivered = [c \in Chats |-> NotTried]
    /\ subHist = [stage |-> "none", chat |-> 0]

Row(code, day) == [code |-> code, date |-> Field(FALSE, <<DateTok(day)>>)]

\* the bot starts without subscribers, on a registry with one fresh
\* filing of the first code and a watchlist that is missing or repeats it
Init ==
    InitWith({[exists |-> FALSE, lines |-> <<>>],
              [exists |-> TRUE, lines |-> <<1, 1>>]},
             {<<Row(1, FirstDay)>>}, {<<>>})

\* ------------------------------------------------ subscribers.txt
get_subscribers(file) == Range(file)

\* the orders in which a set can be written out
Orders(S) == {s \in [1..Cardinality(S) -> S] : Range(s) = S}

\* ------------------------------------ the worker thread of a check
\* step 1 of check_bankruptcy_logic, run when the thread is started
StartRun(file) ==
    LET codes == get_monitored_codes(file)
    IN IF codes = <<>>
       THEN [pc |-> "done", codes |-> codes, out |-> Outcome("nowatch", <<>>, 0)]
       ELSE [pc |-> "download", codes |-> codes, out |-> Outcome("none", <<>>, 0)]

InProgress(w) == run[w].pc \in {"download", "process"}

\* step 2: get_resource_url and download_csv; a download that fails
\* before the file is opened leaves the disk as it was, one that fails
\* while the chunks are written leaves a file
Download(w) ==
    /\ run[w].pc = "download"
    /\ \E ok \in BOOLEAN, opened \in BOOLEAN :
          IF ok
          THEN /\ opened
               /\ tmpFile' = TRUE
               /\ run' = [run EXCEPT ![w].pc = "process"]
          ELSE /\ tmpFile' = (tmpFile \/ opened)
               /\ run' = [run EXCEPT ![w].pc = "done",
                                     ![w].out = Outcome("dlfail", <<>>, 0)]
    /\ UNCHANGED <<companies, subscribers, registry, today, queue, sched,
                   delivered, subHist>>

\* what steps 3-7 return on a CSV of the given shape
ReadAndMatch(w, shape, cols) ==
    IF ~tmpFile \/ shape = "unreadable" THEN Outcome("readfail", <<>>, 0)
    ELSE IF shape = "nocodecol" THEN Outcome("nocodecol", <<>>, cols)
    ELSE IF shape = "nodatecol" THEN Outcome("nodatecol", <<>>, 0)
    ELSE ProcessFrame(run[w].codes, registry, today)

\* steps 3-7: read_csv, the columns, the match loop, the removal of the
\* file (reached only when nothing returned or raised before it)
Process(w) ==
    /\ run[w].pc = "process"
    /\ \E shape \in {"ok", "unreadable", "nocodecol", "nodatecol"},
          cols \in {ShortCols, LongCols} :
          /\ shape # "nocodecol" => cols = ShortCols
          /\ LET out == ReadAndMatch(w, shape, cols)
             IN /\ run' = [run EXCEPT ![w].pc = "done", ![w].out = out]
                /\ tmpFile' = IF out.kind \in {"nonew", "found"} THEN FALSE ELSE tmpFile
    /\ UNCHANGED <<companies, subscribers, registry, today, queue, sched,
                   delivered, subHist>>

\* ----------------------------------------------------- command loop
\* The updates of the commands: the chat of an update matters to /start
\* and /stop alone, the other handlers only reply to it.
Updates(cmds) ==
    {[cmd |-> cmd, chat |-> chat] : cmd \in cmds \cap {"start", "stop"}, chat \in Chats}
    \cup {[cmd |-> cmd, chat |-> 0] : cmd \in cmds \ {"start", "stop"}}

\* an update arrives from the polling loop
ArriveOf(cmds) ==
    /\ Len(queue) < MaxQueue
    /\ \E update \in Updates(cmds) : queue' = Append(queue, update)
    /\ UNCHANGED <<companies, subscribers, registry, tmpFile, today, run,
                   sched, delivered, subHist>>

Arrive == ArriveOf(Commands)

\* The application is built without concurrent updates and the handlers
\* are blocking ones: the next update is taken when the handler of the
\* previous one has returned, and manual_check returns after its report.
Dispatchable(cmd) ==
    /\ queue # <<>>
    /\ Head(queue).cmd = cmd
    /\ run["manual"].pc = "idle"

\* add_subscriber and remove_subscriber: what they return
add_subscriber_returns(file, chat) == chat \notin get_subscribers(file)
remove_subscriber_returns(file, chat) == chat \in get_subscribers(file)

\* an add_subscriber that appends without looking at the file
add_subscriber_always(file, chat) == Append(file, chat)

\* add_subscriber: the file it leaves
add_subscriber(file, chat) ==
    IF add_subscriber_returns(file, chat) THEN Append(file, chat) ELSE file

\* /start; the reply (subscribed, or already subscribed) leaves no state
start ==
    /\ Dispatchable("start")
    /\ LET chat == Head(queue).chat
           is_new == add_subscriber_returns(subscribers, chat)
       IN /\ subscribers' = add_subscriber(subscribers, chat)
          /\ subHist' = IF is_new /\ subHist = [stage |-> "stopped", chat |-> chat]
                        THEN [stage |-> "restarted", chat |-> chat]
                        ELSE subHist
    /\ queue' = Tail(queue)
    /\ UNCHANGED <<companies, registry, tmpFile, today, run, sched,
                   delivered>>

\* /stop that also empties companies.txt
stop_drops_watchlist ==
    /\ Dispatchable("stop")
    /\ LET chat == Head(queue).chat
           subs == get_subscribers(subscribers)
       IN IF remove_subscriber_returns(subscribers, chat)
          THEN /\ subscribers' \in Orders(subs \ {chat})
               /\ companies' = [companies EXCEPT !.lines = <<>>]
               /\ subHist' = IF subHist.stage = "none"
                             THEN [stage |-> "stopped", chat |-> chat]
                             ELSE subHist
          ELSE UNCHANGED <<subscribers, companies, subHist>>
    /\ queue' = Tail(queue)
    /\ UNCHANGED <<registry, tmpFile, today, run, sched, delivered>>

\* /stop: remove_subscriber writes the remaining set back in set order
stop ==
    /\ Dispatchable("stop")
    /\ LET chat == Head(queue).chat
           subs == get_subscribers(subscribers)
       IN IF remove_subscriber_returns(subscribers, chat)
          THEN /\ subscribers' \in Orders(subs \ {chat})
               /\ subHist' = IF subHist.stage = "none"
                             THEN [stage |-> "stopped", chat |-> chat]
                             ELSE subHist
          ELSE UNCHANGED <<subscribers, subHist>>
    /\ queue' = Tail(queue)
    /\ UNCHANGED <<companies, registry, tmpFile, today, run, sched,
                   delivered>>

\* /help: a reply only
help_command ==
    /\ Dispatchable("help")
    /\ queue' = Tail(queue)
    /\ UNCHANGED <<companies, subscribers, registry, tmpFile, today, run,
                   sched, delivered, subHist>>

\* /cleandup: rewrites companies.txt without its duplicate lines (the
\* copy it keeps in companies.txt.backup is read by nothing)
cleandup_command ==
    /\ Dispatchable("cleandup")
    /\ LET unique_codes == Unique(companies.lines, {})
       IN IF ~companies.exists \/ Len(unique_codes) = Len(companies.lines)
          THEN UNCHANGED companies
          ELSE companies' = [companies EXCEPT !.lines = unique_codes]
    /\ queue' = Tail(queue)
    /\ UNCHANGED <<subscribers, registry, tmpFile, today, run, sched,
                   delivered, subHist>>

\* /check, up to the await of the worker thread
manual_check ==
    /\ Dispatchable("check")
    /\ run' = [run EXCEPT !["manual"] = StartRun(companies)]
    /\ queue' = Tail(queue)
    /\ UNCHANGED <<companies, subscribers, registry, tmpFile, today, sched,
                   delivered, subHist>>

\* a part as it is transmitted: the header's length and the part
Message(i, n, part) == [header |-> HeaderLen(i, n), body |-> part]
WithHeaders(parts) == [i \in 1..Len(parts) |-> Message(i, Len(parts), parts[i])]

\* send_long_message: the parts it replies with
send_long_message(lines) ==
    IF TextLen(lines) <= MAX_LENGTH THEN <<Message(1, 1, Part(lines, FALSE))>>
    ELSE WithHeaders(SplitLoop(lines, <<>>, <<>>))

\* /check, after the worker thread returned: the report is sent
ManualReport ==
    /\ run["manual"].pc = "done"
    /\ run' = [run EXCEPT !["manual"] = IdleRun]
    /\ UNCHANGED <<companies, subscribers, registry, tmpFile, today, queue,
                   sched, delivered, subHist>>

\* ------------------------------------------------------ the daily job
NextDay ==
    /\ today < LastDay
    /\ today' = today + 1
    /\ UNCHANGED <<companies, subscribers, registry, tmpFile, queue, run,
                   sched, delivered, subHist>>

\* scheduled_check, up to the await of the worker thread
SchedStart ==
    /\ sched.pc = "idle"
    /\ sched.day < today
    /\ LET subs == get_subscribers(subscribers)
       IN IF subs = {}
          THEN /\ sched' = [sched EXCEPT !.day = today]
               /\ UNCHANGED <<run, delivered>>
          ELSE /\ sched' = [sched EXCEPT !.pc = "wait", !.day = today,
                                          !.subs = subs]
               /\ run' = [run EXCEPT !["sched"] = StartRun(companies)]
               /\ delivered' = [c \in Chats |-> NotTried]
    /\ UNCHANGED <<companies, subscribers, registry, tmpFile, today, queue,
                   subHist>>

\* scheduled_check, after the worker thread returned: the report is cut
SchedReport ==
    /\ sched.pc = "wait"
    /\ run["sched"].pc = "done"
    /\ sched' = [sched EXCEPT !.pc = "send", !.todo = sched.subs,
                                !.report = run["sched"].out]
    /\ run' = [run EXCEPT !["sched"] = IdleRun]
    /\ UNCHANGED <<companies, subscribers, registry, tmpFile, today, queue,
                   delivered, subHist>>

\* the list "messages" of scheduled_check
Messages(report) == SplitReport(ReportLines(report))

\* the parts one subscriber gets when the send of part k + 1 raises
\* (k = Len(messages): no send raises)
SentBefore(messages, k) == SubSeq(WithHeaders(messages), 1, k)

\* a loop over the subscribers that an exception ends
SchedSend_aborts ==
    /\ sched.pc = "send"
    /\ \E chat \in sched.todo, k \in 0..Len(Messages(sched.report)) :
          LET raised == k < Len(Messages(sched.report))
          IN /\ delivered' = [delivered EXCEPT ![chat] =
                    [tried |-> TRUE, raised |-> raised,
                     parts |-> SentBefore(Messages(sched.report), k)]]
             /\ sched' = [sched EXCEPT
                    !.todo = IF raised THEN {} ELSE @ \ {chat},
                    !.pc = IF raised \/ sched.todo = {chat} THEN "idle" ELSE "send"]
    /\ UNCHANGED <<companies, subscribers, registry, tmpFile, today, queue,
                   run, subHist>>

\* one turn of the loop over the subscribers: the inner loop sends the
\* parts in order, an exception ends it and the next subscriber follows
SchedSend ==
    /\ sched.pc = "send"
    /\ \E chat \in sched.todo, k \in 0..Len(Messages(sched.report)) :
          /\ delivered' = [delivered EXCEPT ![chat] =
                [tried |-> TRUE, raised |-> k < Len(Messages(sched.report)),
                 parts |-> SentBefore(Messages(sched.report), k)]]
          /\ sched' = [sched EXCEPT !.todo = @ \ {chat},
                          !.pc = IF sched.todo = {chat} THEN "idle" ELSE "send"]
    /\ UNCHANGED <<companies, subscribers, registry, tmpFile, today, queue,
                   run, subHist>>

Next ==
    \/ Arrive
    \/ start
    \/ stop
    \/ help_command
    \/ cleandup_command
    \/ manual_check
    \/ ManualReport
    \/ \E w \in Callers : Download(w)
    \/ \E w \in Callers : Process(w)
    \/ NextDay
    \/ SchedStart
    \/ SchedReport
    \/ SchedSend

Spec == Init /\ [][Next]_vars

\* ---------------------------------------- the daily cycle on its own
\* the steps of the daily job, when no command arrives
CycleNext ==
    \/ NextDay
    \/ SchedStart
    \/ \E w \in Callers : Download(w)
    \/ \E w \in Callers : Process(w)
    \/ SchedReport
    \/ SchedSend

\* every watchlist and registry within the bounds, one subscriber
CheckInit == InitWith(CompanyFiles, SeqsUpTo(Rows, MaxRows), {<<1>>})
CheckSpec == CheckInit /\ [][CycleNext]_vars

\* every subscriber file within the bounds
SubscriberFiles == UNION {Orders(S) : S \in SUBSET Chats}
BroadcastInit ==
    InitWith({[exists |-> TRUE, lines |-> <<1>>]},
             {<<>>, <<Row(1, FirstDay)>>}, SubscriberFiles)
BroadcastSpec == BroadcastInit /\ [][CycleNext]_vars

\* every order of the watchlist over every registry of dated rows
DatedRows == {Row(c, d) : c \in Codes, d \in Dates}
SortInit ==
    InitWith({[exists |-> TRUE, lines |-> l] : l \in Orders(Codes)},
             SeqsUpTo(DatedRows, MaxRows), {<<1>>})
SortSpec == SortInit /\ [][CycleNext]_vars

\* ------------------------------- the subscription commands on their own
SubNext ==
    \/ ArriveOf(Commands \ {"check"})
    \/ start
    \/ stop
    \/ help_command
    \/ cleandup_command

SubInit == InitWith(CompanyFiles, {<<>>}, {<<>>})
SubSpec == SubInit /\ [][SubNext]_vars

\* ==================================================== the claims
\* a run that has returned
Returned(w) == run[w].pc = "done"
\* a run that got as far as the match loop
Matching(w) == Returned(w) /\ run[w].out.kind \in {"found", "nonew", "error"}
\* a run whose match loop ended without an exception: it has a result
HasResult(w) == Returned(w) /\ run[w].out.kind \in {"found", "nonew"}

Watched(w, row) == row.code \in Range(run[w].codes)
ParsedDay(row) == parse_date(row.date).day
HasDate(row) == parse_date(row.date) \notin {None, IndexError}
InResult(out, code, day) ==
    \E i \in DOMAIN out.results :
        out.results[i].code = code /\ out.results[i].date = day

\* C1: of two scheduled cycles run one after the other on an unchanged
\* registry, the second does not report a record the first reported.
C1_NoDuplicateNotification ==
    [][(sched.pc = "wait" /\ sched'.pc = "send") =>
          \A i \in DOMAIN sched.report.results :
              ~InResult(sched'.report, sched.report.results[i].code,
                        sched.report.results[i].date)]_vars

\* C2: the result of a check holds every registry record of a watched
\* code whose parsed date is later than the cutoff, also when the code
\* has several records.
C2_EveryWatchedRecordReported ==
    \A w \in Callers :
        HasResult(w) =>
            \A i \in DOMAIN registry :
                (/\ Watched(w, registry[i])
                 /\ HasDate(registry[i])
                 /\ ParsedDay(registry[i]) > run[w].out.cutoff)
                => InResult(run[w].out, registry[i].code, ParsedDay(registry[i]))

\* C3: a watched record dated on the cutoff is not in the result, one
\* dated the day after the cutoff is.
C3_CutoffBoundary ==
    \A w \in Callers :
        HasResult(w) =>
            \A i \in DOMAIN registry :
                (Watched(w, registry[i]) /\ HasDate(registry[i])) =>
                    /\ ParsedDay(registry[i]) = run[w].out.cutoff
                       => ~InResult(run[w].out, registry[i].code, run[w].out.cutoff)
                    /\ ParsedDay(registry[i]) = run[w].out.cutoff + 1
                       => InResult(run[w].out, registry[i].code, run[w].out.cutoff + 1)

\* C4: a record whose date field cannot be parsed never raises and is
\* never reported: the check ends with a result, in which every entry
\* carries a parsed date.
C4_MalformedDateSkipped ==
    \A w \in Callers :
        Matching(w) =>
            /\ run[w].out.kind # "error"
            /\ \A i \in DOMAIN run[w].out.results :
                  \E j \in DOMAIN registry :
                      /\ HasDate(registry[j])
                      /\ registry[j].code = run[w].out.results[i].code
                      /\ ParsedDay(registry[j]) = run[w].out.results[i].date

\* the parts a subscriber gets when no send raises
CompleteReport == WithHeaders(Messages(sched.report))
\* the loop over the subscribers of a cycle has ended
BroadcastOver == sched.pc = "idle" /\ sched.report.kind # "none"

\* C5: a send that raises for one subscriber does not end the cycle:
\* when the cycle is over every subscriber of its set was tried, and each
\* one tried without an exception got every part of the report, in order.
C5_SendFailureIsLocal ==
    /\ BroadcastOver => \A c \in sched.subs : delivered[c].tried
    /\ sched.pc \in {"send", "idle"} =>
          \A c \in sched.subs :
              (delivered[c].tried /\ ~delivered[c].raised)
              => delivered[c].parts = CompleteReport

\* a cycle that ended with a report of several parts, where the send to
\* one subscriber raised and another subscriber got them all
C5_Witness ==
    /\ BroadcastOver
    /\ Len(CompleteReport) > 1
    /\ \E c1, c2 \in sched.subs :
          /\ delivered[c1].raised
          /\ delivered[c2].tried /\ ~delivered[c2].raised
          /\ delivered[c2].parts = CompleteReport

\* C6: a scheduled cycle whose check could not obtain the registry sends
\* no message to any subscriber.
C6_UnavailableRegistrySendsNothing ==
    sched.report.kind \in Unavailable =>
        \A c \in Chats : delivered[c].parts = <<>>

\* C7: no two runs of the check are in progress at the same time.
C7_NoOverlappingChecks ==
    ~(InProgress("manual") /\ InProgress("sched"))

\* C8: while a check is in progress an update that waits in the queue
\* can be handled.
C8_CommandLoopResponsive ==
    (queue # <<>> /\ \E w \in Callers : InProgress(w)) =>
        ENABLED (start \/ stop \/ help_command \/ cleandup_command \/ manual_check)

\* a registry row the run would have to report
Eligible(w, row) ==
    /\ Watched(w, row)
    /\ HasDate(row)
    /\ ParsedDay(row) > run[w].out.cutoff

\* C9: a run on an empty or missing watchlist returns the "no watchlist"
\* outcome, which is not the "no new matches" outcome, and fetches
\* nothing; a run on a watchlist that read the registry and found no
\* eligible record returns the "no new matches" outcome.
C9_NoWatchlistOutcome ==
    \A w \in Callers :
        /\ (run[w].pc # "idle" /\ run[w].codes = <<>>) =>
              Returned(w) /\ run[w].out.kind = "nowatch"
        /\ (Matching(w) /\ \A i \in DOMAIN registry : ~Eligible(w, registry[i])) =>
              run[w].out.kind = "nonew"

\* the set of watched codes
WatchSet(file) == Range(get_monitored_codes(file))

\* C10: no step of the subscription commands changes the set of watched
\* codes.
C10_WatchlistKept == [][WatchSet(companies') = WatchSet(companies)]_vars

\* a chat that stopped and started again, on a watchlist that is not empty
C10_Witness ==
    /\ subHist.stage = "restarted"
    /\ subHist.chat \in get_subscribers(subscribers)
    /\ WatchSet(companies) # {}

\* the entries of a result run from the latest date to the earliest
Descending(results) ==
    \A i \in 1..(Len(results) - 1) : results[i].date >= results[i + 1].date

\* the entries of a run as the match loop appended them
LoopOrder(w) ==
    MatchLoop(run[w].codes, registry, run[w].out.cutoff + DAYS_TO_CHECK, <<>>).results

\* C11: the records of every result, of a /check or of the daily job,
\* are in one order: each entry's date is later than or equal to the date
\* of the entry after it.
C11_LatestFirst ==
    /\ \A w \in Callers : Returned(w) => Descending(run[w].out.results)
    /\ Descending(sched.report.results)

\* a result of two entries of different dates that the match loop had
\* appended earliest first
C11_Witness ==
    \E w \in Callers :
        /\ HasResult(w)
        /\ Len(run[w].out.results) > 1
        /\ run[w].out.results[1].date > run[w].out.results[2].date
        /\ LoopOrder(w)[1].date < LoopOrder(w)[2].date

\* a transmitted part that Telegram accepts: header and body together
\* within the limit, and a body that is not empty
Fits(message) ==
    /\ message.header + PartLen(message.body) <= TELEGRAM_LIMIT
    /\ PartLen(message.body) > 0

\* C12: every part that send_long_message replies with and every part
\* that the daily job sends, header included, is at most 4096 characters
\* long and is not empty.
C12_PartsFit ==
    /\ Returned("manual") =>
          \A i \in DOMAIN send_long_message(ReportLines(run["manual"].out)) :
              Fits(send_long_message(ReportLines(run["manual"].out))[i])
    /\ \A c \in Chats :
          \A i \in DOMAIN delivered[c].parts : Fits(delivered[c].parts[i])

\* the cycle has cut its report and has not sent anything yet
DeliveryStarts == sched.pc = "send" /\ sched.todo = sched.subs

\* C13: a chat whose /stop was handled before the cycle starts to
\* deliver, the wait for the worker thread included, gets no message of
\* that cycle.
C13_StoppedGetsNothing ==
    [][\A c \in Chats :
          (DeliveryStarts /\ c \notin get_subscribers(subscribers)) =>
              delivered'[c].parts = <<>>]_vars

\* the step that handles the update cmd of chat c
Handles(cmd, c) ==
    /\ queue # <<>>
    /\ Head(queue) = [cmd |-> cmd, chat |-> c]
    /\ queue' = Tail(queue)

\* the file holds no chat id twice
NoDuplicates(file) == Len(file) = Cardinality(get_subscribers(file))

====
